---- MODULE Spec2Model ----
(***************************************************************************)
(* Failure classification of the Q&A web service.                          *)
(*                                                                         *)
(*   handle-errors/src/lib.rs   Error, APILayerError, their Display, and   *)
(*                              return_error, the recover handler          *)
(*   src/lib.rs                 build_routes: .recover(return_error)       *)
(*   src/types/pagination.rs    extract_pagination                         *)
(*                                                                         *)
(* A text is a sequence of tokens: a literal of the source is one token,   *)
(* the text of an embedded foreign error is one token, and a number or a   *)
(* parsed string is a sequence of one-character tokens.                    *)
(***************************************************************************)
EXTENDS Integers, Sequences, FiniteSets, TLC

\* Longest rejection (number of signals attached to one failed request).
MaxSignals == 2

-----------------------------------------------------------------------------
(* Texts *)

DigitChars == <<"0", "1", "2", "3", "4", "5", "6", "7", "8", "9">>

\* `{}` of an unsigned integer: its decimal digits.
RECURSIVE fmt_uint(_)
fmt_uint(n) ==
    IF n < 10 THEN <<DigitChars[n + 1]>>
    ELSE fmt_uint(n \div 10) \o <<DigitChars[(n % 10) + 1]>>

\* needle occurs in hay as a contiguous run of tokens.
ContainsSeq(hay, needle) ==
    \E i \in 0..(Len(hay) - Len(needle)) :
        \A j \in 1..Len(needle) : hay[i + j] = needle[j]

-----------------------------------------------------------------------------
(* str::parse::<u32>() *)

\* A u32 is kept as two 16-bit limbs <<hi, lo>>.
Limb == 2 ^ 16

U32(n) == <<n \div Limb, n % Limb>>

DigitValue(c) == CHOOSE d \in 0..9 : DigitChars[d + 1] = c

IsDigitChar(c) == \E d \in 0..9 : DigitChars[d + 1] = c

ParseOk(v) == [ok |-> TRUE, val |-> v, err |-> ""]

ParseErr(k) == [ok |-> FALSE, val |-> <<0, 0>>, err |-> k]

\* One digit at a time: checked_mul(10) then checked_add(digit).
RECURSIVE parse_digits(_, _)
parse_digits(digits, acc) ==
    IF digits = <<>> THEN ParseOk(acc)
    ELSE IF ~IsDigitChar(Head(digits)) THEN ParseErr("InvalidDigit")
    ELSE LET lo10 == acc[2] * 10
             hi10 == acc[1] * 10 + (lo10 \div Limb)
             lo   == (lo10 % Limb) + DigitValue(Head(digits))
             hi   == hi10 + (lo \div Limb)
         IN  IF hi10 >= Limb \/ hi >= Limb THEN ParseErr("PosOverflow")
             ELSE parse_digits(Tail(digits), <<hi, lo % Limb>>)

parse_u32(s) ==
    IF s = <<>> THEN ParseErr("Empty")
    ELSE IF s = <<"+">> \/ s = <<"-">> THEN ParseErr("InvalidDigit")
    ELSE parse_digits(IF Head(s) = "+" THEN Tail(s) ELSE s, <<0, 0>>)

\* Display of std::num::ParseIntError.
ParseIntErrorDisplay(k) ==
    CASE k = "Empty"        -> "cannot parse integer from empty string"
      [] k = "InvalidDigit" -> "invalid digit found in string"
      [] k = "PosOverflow"  -> "number too large to fit in target type"

-----------------------------------------------------------------------------
(* Error, APILayerError and the signals of a rejection *)

\* The value embedded in an Error variant.  variant: the variant of the
\* embedded error; hasCode/code: DatabaseError::code(); status: the
\* APILayerError status; text: the embedded error's own message.
Ctx(variant, hasCode, code, status, text) ==
    [variant |-> variant, hasCode |-> hasCode, code |-> code,
     status |-> status, text |-> text]

NoCtx == Ctx("", FALSE, <<>>, 0, "")

ParseIntErrors ==
    { Ctx(k, FALSE, <<>>, 0, ParseIntErrorDisplay(k)) :
        k \in {"Empty", "InvalidDigit", "PosOverflow"} }

\* sqlx::Error values: Database(err) with and without a code, and variants
\* that are not driver errors.
SqlxErrors ==
    { Ctx("Database", TRUE, <<"2", "3", "5", "0", "5">>, 0, "duplicate key value violates unique constraint"),
      Ctx("Database", TRUE, <<"2", "3", "5", "0", "3">>, 0, "violates foreign key constraint"),
      Ctx("Database", TRUE, <<"4", "2", "P", "0", "1">>, 0, "relation does not exist"),
      Ctx("Database", FALSE, <<>>, 0, "driver error without code"),
      Ctx("RowNotFound", FALSE, <<>>, 0, "no rows returned") }

OpaqueErrors(texts) == { Ctx("", FALSE, <<>>, 0, t) : t \in texts }

ClientAPILayerErrors ==
    { Ctx("", FALSE, <<>>, 400, "bad request"), Ctx("", FALSE, <<>>, 429, "rate limited") }

ServerAPILayerErrors ==
    { Ctx("", FALSE, <<>>, 500, "upstream crashed"), Ctx("", FALSE, <<>>, 503, "upstream down") }

Error(kind, ctx) == [type |-> "Error", kind |-> kind, ctx |-> ctx]

PlainKinds ==
    {"MissingParameters", "WrongPassword", "CannotDecryptToken",
     "Unauthorized", "QuestionNotFound"}

Errors ==
    { Error("ParseError", c) : c \in ParseIntErrors }
    \cup { Error(k, NoCtx) : k \in PlainKinds }
    \cup { Error("ArgonLibraryError", c) : c \in OpaqueErrors({"argon2: salt too short", "argon2: memory cost"}) }
    \cup { Error("DatabaseQueryError", c) : c \in SqlxErrors }
    \cup { Error("MigrationError", c) : c \in OpaqueErrors({"migration 3 checksum", "migration 5 missing"}) }
    \cup { Error("ReqwestAPIError", c) : c \in OpaqueErrors({"connection refused", "dns failure"}) }
    \cup { Error("MiddlewareReqwestError", c) : c \in OpaqueErrors({"retries exhausted", "middleware timeout"}) }
    \cup { Error("ClientError", c) : c \in ClientAPILayerErrors }
    \cup { Error("ServerError", c) : c \in ServerAPILayerErrors }

\* warp's own rejections.
BodyDeserializeErrors ==
    { [type |-> "BodyDeserializeError", kind |-> "", ctx |-> c] :
        c \in OpaqueErrors({"Request body deserialize error: missing field", "Request body deserialize error: EOF"}) }

CorsForbiddens ==
    { [type |-> "CorsForbidden", kind |-> "", ctx |-> c] :
        c \in OpaqueErrors({"CORS request forbidden: origin not allowed", "CORS request forbidden: header not allowed"}) }

OtherKnown ==
    { [type |-> "MethodNotAllowed", kind |-> "", ctx |-> Ctx("", FALSE, <<>>, 0, "HTTP method not allowed")] }

Signals == Errors \cup BodyDeserializeErrors \cup CorsForbiddens \cup OtherKnown

RECURSIVE SeqsUpTo(_, _)
SeqsUpTo(S, n) ==
    IF n = 0 THEN {<<>>}
    ELSE LET shorter == SeqsUpTo(S, n - 1)
         IN  shorter \cup { Append(q, s) : q \in {p \in shorter : Len(p) = n - 1}, s \in S }

\* A rejection: the signals in the order Rejection::find visits them.
\* The empty rejection is "not found".
Rejections == SeqsUpTo(Signals, MaxSignals)

-----------------------------------------------------------------------------
(* Display and Debug *)

APILayerErrorDisplay(a) ==
    <<"Status: ">> \o fmt_uint(a.status) \o <<", Message: ", a.text>>

\* `{}` of the value embedded in an Error.
EmbeddedDisplay(e) ==
    IF e.kind \in {"ClientError", "ServerError"} THEN APILayerErrorDisplay(e.ctx)
    ELSE <<e.ctx.text>>

\* ErrorDisplay with the argon2 error written out after the message.
ErrorDisplay_argon_written(e) ==
    CASE e.kind = "ParseError"             -> <<"Cannot parse parameter: ">> \o EmbeddedDisplay(e)
      [] e.kind = "MissingParameters"      -> <<"Missing parameter">>
      [] e.kind = "WrongPassword"          -> <<"Wrong password">>
      [] e.kind = "CannotDecryptToken"     -> <<"Cannot decrypt error">>
      [] e.kind = "Unauthorized"           -> <<"No permisssion to change the underlying rsource">>
      [] e.kind = "ArgonLibraryError"      -> <<"Connot verify password: ">> \o EmbeddedDisplay(e)
      [] e.kind = "QuestionNotFound"       -> <<"Question not found">>
      [] e.kind = "DatabaseQueryError"     -> <<"Cannot update, invalid data.">>
      [] e.kind = "MigrationError"         -> <<"Cannot migrate data">>
      [] e.kind = "ReqwestAPIError"        -> <<"External API Error: ">> \o EmbeddedDisplay(e)
      [] e.kind = "MiddlewareReqwestError" -> <<"External API Error: ">> \o EmbeddedDisplay(e)
      [] e.kind = "ClientError"            -> <<"External Client error: ">> \o EmbeddedDisplay(e)
      [] e.kind = "ServerError"            -> <<"External Server error: ">> \o EmbeddedDisplay(e)

ErrorDisplay(e) ==
    CASE e.kind = "ParseError"             -> <<"Cannot parse parameter: ">> \o EmbeddedDisplay(e)
      [] e.kind = "MissingParameters"      -> <<"Missing parameter">>
      [] e.kind = "WrongPassword"          -> <<"Wrong password">>
      [] e.kind = "CannotDecryptToken"     -> <<"Cannot decrypt error">>
      [] e.kind = "Unauthorized"           -> <<"No permisssion to change the underlying rsource">>
      [] e.kind = "ArgonLibraryError"      -> <<"Connot verify password">>
      [] e.kind = "QuestionNotFound"       -> <<"Question not found">>
      [] e.kind = "DatabaseQueryError"     -> <<"Cannot update, invalid data.">>
      [] e.kind = "MigrationError"         -> <<"Cannot migrate data">>
      [] e.kind = "ReqwestAPIError"        -> <<"External API Error: ">> \o EmbeddedDisplay(e)
      [] e.kind = "MiddlewareReqwestError" -> <<"External API Error: ">> \o EmbeddedDisplay(e)
      [] e.kind = "ClientError"            -> <<"External Client error: ">> \o EmbeddedDisplay(e)
      [] e.kind = "ServerError"            -> <<"External Server error: ">> \o EmbeddedDisplay(e)

\* `{:?}` of the value embedded in an Error (derived Debug).
EmbeddedDebug(e) ==
    CASE e.kind \in {"ClientError", "ServerError"} ->
            <<"APILayerError { status: ">> \o fmt_uint(e.ctx.status)
                \o <<", message: ", e.ctx.text, " }">>
      [] e.kind = "ParseError" -> <<"ParseIntError { kind: ", e.ctx.variant, " }">>
      [] e.kind = "DatabaseQueryError" ->
            <<e.ctx.variant, "(", e.ctx.text>>
                \o (IF e.ctx.hasCode THEN <<", code: ">> \o e.ctx.code ELSE <<>>)
                \o <<")">>
      [] OTHER -> <<e.ctx.text>>

SignalDebug(s) ==
    IF s.type # "Error" THEN <<s.type>>
    ELSE IF s.kind \in PlainKinds THEN <<s.kind>>
    ELSE <<s.kind, "(">> \o EmbeddedDebug(s) \o <<")">>

RECURSIVE RejectionDebug(_)
RejectionDebug(r) ==
    IF r = <<>> THEN <<>>
    ELSE SignalDebug(Head(r)) \o <<", ">> \o RejectionDebug(Tail(r))

-----------------------------------------------------------------------------
(* return_error *)

DUPLICATE_KEY == 23505

NoSignal == [type |-> "", kind |-> "", ctx |-> NoCtx]

None == [some |-> FALSE, val |-> NoSignal]

Some(s) == [some |-> TRUE, val |-> s]

\* find that looks at the head of the rejection only.
find_head_only(r, T) ==
    IF r # <<>> /\ Head(r).type = T THEN Some(Head(r)) ELSE None

\* Rejection::find::<T>(): the first signal of type T, left to right.
find(r, T) ==
    LET idx == { i \in 1..Len(r) : r[i].type = T }
    IN  IF idx = {} THEN None
        ELSE Some(r[CHOOSE i \in idx : \A j \in idx : i <= j])

\* The pattern K tried on every Error of the rejection, not on the first.
find_Error_kind_any(r, K) ==
    \E i \in 1..Len(r) : r[i].type = "Error" /\ r[i].kind = K

\* `if let Some(crate::Error::K(..)) = r.find()`: find::<Error>() and then
\* the pattern K on what it found.
find_Error_kind(r, K) ==
    LET e == find(r, "Error") IN e.some /\ e.val.kind = K

Ok(status, body) == [result |-> "Ok", status |-> status, body |-> body]

Panic == [result |-> "panic", status |-> 0, body |-> <<>>]

NoReply == [result |-> "none", status |-> 0, body |-> <<>>]

Event(level, msg) == [level |-> level, msg |-> msg]

\* The match on the sqlx::Error of a DatabaseQueryError.
DatabaseQueryErrorReply(e) ==
    IF e.ctx.variant = "Database" THEN
        IF ~e.ctx.hasCode THEN Panic
        ELSE LET code == parse_u32(e.ctx.code)
             IN  IF ~code.ok THEN Panic
                 ELSE IF code.val = U32(DUPLICATE_KEY)
                      THEN Ok(422, <<"Account already exists">>)
                      ELSE Ok(422, <<"Cannot update data">>)
    ELSE Ok(422, <<"Cannot not update data">>)

ReqwestAPIErrorReply(e) == Ok(500, <<"Internal Server Error">>)

UnauthorizedReply == Ok(401, <<"No permission to changing underlying resource">>)

WrongPasswordReply == Ok(401, <<"Wrong E-Mail/Password combination">>)

MiddlewareReqwestErrorReply(e) == Ok(500, <<"Internal Server Error">>)

ClientErrorReply(e) == Ok(500, <<"Internal Server Error">>)

\* The ServerError branch answering with the APILayerError it logged.
ServerErrorReply_answers_e(e) == Ok(500, EmbeddedDisplay(e))

ServerErrorReply(e) == Ok(500, <<"Internal Server Error">>)

BodyDeserializeErrorReply(error) == Ok(422, <<error.ctx.text>>)

GenericErrorReply(error) == Ok(416, ErrorDisplay(error))

CorsForbiddenReply(error) == Ok(403, <<error.ctx.text>>)

RouteNotFoundReply == Ok(404, <<"Route not found">>)

\* The fallback logging at ERROR like the other branches.
RouteNotFoundEvent_at_error == Event("ERROR", <<"Requested route was not found">>)

RouteNotFoundEvent == Event("WARN", <<"Requested route was not found">>)

GenericErrorEvent(error) == Event("ERROR", ErrorDisplay(error))

DatabaseQueryErrorEvent(e) == Event("ERROR", <<"Database query error">>)

\* The branch of the if / else-if chain that is taken.
Branch(r) ==
    IF find_Error_kind(r, "DatabaseQueryError") THEN "DatabaseQueryError"
    ELSE IF find_Error_kind(r, "ReqwestAPIError") THEN "ReqwestAPIError"
    ELSE IF find_Error_kind(r, "Unauthorized") THEN "Unauthorized"
    ELSE IF find_Error_kind(r, "WrongPassword") THEN "WrongPassword"
    ELSE IF find_Error_kind(r, "MiddlewareReqwestError") THEN "MiddlewareReqwestError"
    ELSE IF find_Error_kind(r, "ClientError") THEN "ClientError"
    ELSE IF find_Error_kind(r, "ServerError") THEN "ServerError"
    ELSE IF find(r, "BodyDeserializeError").some THEN "BodyDeserializeError"
    ELSE IF find(r, "Error").some THEN "Error"
    ELSE IF find(r, "CorsForbidden").some THEN "CorsForbidden"
    ELSE "NotFound"

\* The event! of the branch taken.
BranchEvent(r) ==
    LET b == Branch(r)
        e == find(r, "Error").val
    IN  CASE b = "DatabaseQueryError"     -> DatabaseQueryErrorEvent(e)
          [] b = "ReqwestAPIError"        -> Event("ERROR", EmbeddedDisplay(e))
          [] b = "Unauthorized"           -> Event("ERROR", <<"Not matching account id">>)
          [] b = "WrongPassword"          -> Event("ERROR", <<"Entered wrong password">>)
          [] b = "MiddlewareReqwestError" -> Event("ERROR", EmbeddedDisplay(e))
          [] b = "ClientError"            -> Event("ERROR", EmbeddedDisplay(e))
          [] b = "ServerError"            -> Event("ERROR", EmbeddedDisplay(e))
          [] b = "BodyDeserializeError"   ->
                Event("ERROR", <<"Cannot deserizalize request body: ",
                                 find(r, "BodyDeserializeError").val.ctx.text>>)
          [] b = "Error"                  -> GenericErrorEvent(e)
          [] b = "CorsForbidden"          ->
                Event("ERROR", <<"CORS forbidden error: ",
                                 find(r, "CorsForbidden").val.ctx.text>>)
          [] b = "NotFound"               -> RouteNotFoundEvent

\* What the branch taken returns (or the panic of an unwrap in it).
BranchReply(r) ==
    LET b == Branch(r)
        e == find(r, "Error").val
    IN  CASE b = "DatabaseQueryError"     -> DatabaseQueryErrorReply(e)
          [] b = "ReqwestAPIError"        -> ReqwestAPIErrorReply(e)
          [] b = "Unauthorized"           -> UnauthorizedReply
          [] b = "WrongPassword"          -> WrongPasswordReply
          [] b = "MiddlewareReqwestError" -> MiddlewareReqwestErrorReply(e)
          [] b = "ClientError"            -> ClientErrorReply(e)
          [] b = "ServerError"            -> ServerErrorReply(e)
          [] b = "BodyDeserializeError"   -> BodyDeserializeErrorReply(find(r, "BodyDeserializeError").val)
          [] b = "Error"                  -> GenericErrorReply(e)
          [] b = "CorsForbidden"          -> CorsForbiddenReply(find(r, "CorsForbidden").val)
          [] b = "NotFound"               -> RouteNotFoundReply

-----------------------------------------------------------------------------
(* extract_pagination *)

ParamKeys == {"limit", "offset", "page"}

ParamValues ==
    { <<"1">>, <<"1", "0">>, <<"+", "7">>, <<>>, <<"-", "1">>, <<"1", "a">>,
      <<"4", "2", "9", "4", "9", "6", "7", "2", "9", "5">>,
      <<"4", "2", "9", "4", "9", "6", "7", "2", "9", "6">> }

\* The HashMap<String, String> of query parameters.
ParamMaps == UNION { [D -> ParamValues] : D \in SUBSET ParamKeys }

contains_key(params, k) == k \in DOMAIN params

PageOk(limit, offset) ==
    [result |-> "Ok", limit |-> [some |-> TRUE, val |-> limit],
     offset |-> offset, err |-> NoSignal]

PageErr(e) ==
    [result |-> "Err", limit |-> [some |-> FALSE, val |-> <<0, 0>>],
     offset |-> <<0, 0>>, err |-> e]

NoPage ==
    [result |-> "none", limit |-> [some |-> FALSE, val |-> <<0, 0>>],
     offset |-> <<0, 0>>, err |-> NoSignal]

\* map_err(Error::ParseError)
ParseErrorOf(p) == Error("ParseError", Ctx(p.err, FALSE, <<>>, 0, ParseIntErrorDisplay(p.err)))

\* extract_pagination parsing offset before limit.
extract_pagination_offset_first(params) ==
    IF contains_key(params, "limit") /\ contains_key(params, "offset") THEN
        LET limit  == parse_u32(params["limit"])
            offset == parse_u32(params["offset"])
        IN  IF ~offset.ok THEN PageErr(ParseErrorOf(offset))
            ELSE IF ~limit.ok THEN PageErr(ParseErrorOf(limit))
            ELSE PageOk(limit.val, offset.val)
    ELSE PageErr(Error("MissingParameters", NoCtx))

extract_pagination(params) ==
    IF contains_key(params, "limit") /\ contains_key(params, "offset") THEN
        LET limit  == parse_u32(params["limit"])
            offset == parse_u32(params["offset"])
        IN  IF ~limit.ok THEN PageErr(ParseErrorOf(limit))
            ELSE IF ~offset.ok THEN PageErr(ParseErrorOf(offset))
            ELSE PageOk(limit.val, offset.val)
    ELSE PageErr(Error("MissingParameters", NoCtx))

-----------------------------------------------------------------------------
(* The state machine *)

VARIABLES
    pc,           \* where the handling of the current request is
    r,            \* the rejection handed to return_error
    spanEnabled,  \* whether the log filter lets the INFO span of #[instrument] through
    stdout,       \* what println! wrote
    log,          \* the events emitted, each with the span context it is written with
    reply,        \* what return_error returned
    params,       \* the query parameters handed to extract_pagination
    page          \* what extract_pagination returned

vars == <<pc, r, spanEnabled, stdout, log, reply, params, page>>

NoParams == [k \in {} |-> <<>>]

Init ==
    /\ pc = "idle"
    /\ r = <<>>
    /\ spanEnabled = FALSE
    /\ stdout = <<>>
    /\ log = <<>>
    /\ reply = NoReply
    /\ params = NoParams
    /\ page = NoPage

\* .recover(return_error): the routes rejected the request with some
\* rejection, under some log filter.
Recover ==
    /\ pc = "idle"
    /\ pc' = "entered"
    /\ \E rej \in Rejections : r' = rej
    /\ \E span \in BOOLEAN : spanEnabled' = span
    /\ UNCHANGED <<stdout, log, reply, params, page>>

\* println!("{:?}", r)
Println ==
    /\ pc = "entered"
    /\ pc' = "printed"
    /\ stdout' = RejectionDebug(r)
    /\ UNCHANGED <<r, spanEnabled, log, reply, params, page>>

\* The span of #[instrument] records r with {:?}; the subscriber writes the
\* span in front of each event of an enabled span.
SpanContext == IF spanEnabled THEN <<"return_error{r=">> \o RejectionDebug(r) \o <<"}">> ELSE <<>>

\* event!(..) of the branch taken.
EmitEvent ==
    /\ pc = "printed"
    /\ pc' = "logged"
    /\ log' = Append(log, [level |-> BranchEvent(r).level,
                           msg   |-> BranchEvent(r).msg,
                           span  |-> SpanContext])
    /\ UNCHANGED <<r, spanEnabled, stdout, reply, params, page>>

\* The Ok(warp::reply::with_status(..)) of the branch taken, or its panic.
Return ==
    /\ pc = "logged"
    /\ reply' = BranchReply(r)
    /\ pc' = IF BranchReply(r).result = "panic" THEN "panicked" ELSE "replied"
    /\ UNCHANGED <<r, spanEnabled, stdout, log, params, page>>

\* extract_pagination(params), for some query parameters.
ExtractPagination ==
    /\ pc = "idle"
    /\ pc' = "paginated"
    /\ \E p \in ParamMaps :
          /\ params' = p
          /\ page' = extract_pagination(p)
    /\ UNCHANGED <<r, spanEnabled, stdout, log, reply>>

\* The request is over; the next one starts from scratch.
Finish ==
    /\ pc \in {"replied", "panicked", "paginated"}
    /\ pc' = "idle"
    /\ r' = <<>>
    /\ spanEnabled' = FALSE
    /\ stdout' = <<>>
    /\ log' = <<>>
    /\ reply' = NoReply
    /\ params' = NoParams
    /\ page' = NoPage

Next ==
    \/ Recover
    \/ Println
    \/ EmitEvent
    \/ Return
    \/ ExtractPagination
    \/ Finish

Spec == Init /\ [][Next]_vars

-----------------------------------------------------------------------------
(* Properties *)

Returned == pc \in {"replied", "panicked"}

\* The kinds of the Database and External branches.
OpaqueKinds ==
    {"DatabaseQueryError", "ReqwestAPIError", "MiddlewareReqwestError",
     "ClientError", "ServerError"}

\* The kinds that embed another error.
ContextKinds ==
    OpaqueKinds \cup {"ParseError", "ArgonLibraryError", "MigrationError"}

\* Failure signals: Error values, malformed body, CORS violation.
IsFailureSignal(s) == s.type \in {"Error", "BodyDeserializeError", "CorsForbidden"}

\* Position of a signal in the documented dispatch order.
DispatchRank(s) ==
    CASE s.type = "BodyDeserializeError" -> 8
      [] s.type = "CorsForbidden" -> 10
      [] s.type = "Error" /\ s.kind = "DatabaseQueryError" -> 1
      [] s.type = "Error" /\ s.kind = "ReqwestAPIError" -> 2
      [] s.type = "Error" /\ s.kind = "Unauthorized" -> 3
      [] s.type = "Error" /\ s.kind = "WrongPassword" -> 4
      [] s.type = "Error" /\ s.kind = "MiddlewareReqwestError" -> 5
      [] s.type = "Error" /\ s.kind = "ClientError" -> 6
      [] s.type = "Error" /\ s.kind = "ServerError" -> 7
      [] OTHER -> 9

\* C1: with two failure signals attached, the answer is the one of the
\* signal that is earlier in the dispatch order, and it is the same for
\* both orders of attachment.
C1_EarliestInDispatchOrderWins ==
    (/\ Returned /\ Len(r) = 2
     /\ IsFailureSignal(r[1]) /\ IsFailureSignal(r[2])
     /\ (r[1].type = r[2].type => r[1].type = "Error" /\ r[1] # r[2])) =>
        /\ DispatchRank(r[1]) < DispatchRank(r[2]) => reply = BranchReply(<<r[1]>>)
        /\ DispatchRank(r[2]) < DispatchRank(r[1]) => reply = BranchReply(<<r[2]>>)
        /\ reply = BranchReply(<<r[2], r[1]>>)

DuplicateKeyCode == <<"2", "3", "5", "0", "5">>

IsDuplicateKey(e) ==
    e.ctx.variant = "Database" /\ e.ctx.hasCode /\ e.ctx.code = DuplicateKeyCode

\* The response table, by kind.
TableReply(e) ==
    CASE e.kind = "DatabaseQueryError" ->
            IF IsDuplicateKey(e) THEN Ok(422, <<"Account already exists">>)
            ELSE Ok(422, <<"Cannot update data">>)
      [] e.kind \in {"ReqwestAPIError", "MiddlewareReqwestError", "ClientError", "ServerError"} ->
            Ok(500, <<"Internal Server Error">>)
      [] e.kind = "Unauthorized" -> Ok(401, <<"No permission to changing underlying resource">>)
      [] e.kind = "WrongPassword" -> Ok(401, <<"Wrong E-Mail/Password combination">>)
      [] OTHER -> Ok(416, ErrorDisplay(e))

\* C2: a single Error attached alone is answered with the pair of the
\* response table.
C2_ResponseTable ==
    (Returned /\ Len(r) = 1 /\ r[1].type = "Error") => reply = TableReply(r[1])

\* C3: a DatabaseQueryError is answered (422, "Account already exists") when
\* the driver error has code 23505 and (422, "Cannot update data") in every
\* other case (other code, no code, non-numeric code, not a driver error).
C3_DatabaseReply ==
    (Returned /\ find(r, "Error").some /\ find(r, "Error").val.kind = "DatabaseQueryError") =>
        /\ reply.result = "Ok"
        /\ reply.status = 422
        /\ reply.body = IF IsDuplicateKey(find(r, "Error").val)
                        THEN <<"Account already exists">>
                        ELSE <<"Cannot update data">>

\* C4: return_error always ends with an Ok reply; it neither panics nor
\* returns the rejection as an error.
C4_Total == Returned => reply.result = "Ok"

AttachedErrors == { r[i] : i \in { j \in 1..Len(r) : r[j].type = "Error" } }

\* The literal bodies of the Database and External branches.
OpaqueBodies ==
    { <<"Account already exists">>, <<"Cannot update data">>,
      <<"Cannot not update data">>, <<"Internal Server Error">> }

\* The reply carries the text, or the third-party status, embedded in e.
BodyLeaks(e) ==
    \/ ContainsSeq(reply.body, <<e.ctx.text>>)
    \/ e.kind \in {"ClientError", "ServerError"} /\ ContainsSeq(reply.body, fmt_uint(e.ctx.status))

\* C5: a reply selected by a Database or External kind has one of the
\* literal bodies of those branches, and no reply carries the embedded error
\* text (or third-party status) of an attached Database or External kind,
\* nor that kind's rendered message, whatever else is attached.
C5_OpaqueBranches ==
    pc = "replied" =>
        /\ (find(r, "Error").some /\ find(r, "Error").val.kind \in OpaqueKinds)
                => reply.body \in OpaqueBodies
        /\ \A e \in AttachedErrors :
                e.kind \in OpaqueKinds =>
                    /\ ~BodyLeaks(e)
                    /\ reply.body # ErrorDisplay(e)

C5_Witness ==
    /\ pc = "replied"
    /\ Len(r) = 2
    /\ r[1].type = "BodyDeserializeError"
    /\ r[2].kind = "ServerError"
    /\ reply.status = 500

SameKind(e) == { e2 \in Errors : e2.kind = e.kind }

WrittenOutKinds ==
    {"ParseError", "ReqwestAPIError", "MiddlewareReqwestError", "ClientError", "ServerError"}

C7_EventHasEmbeddedDetail ==
    (pc \in {"logged", "replied", "panicked"}
        /\ Branch(r) \in OpaqueKinds \cup {"Error"}
        /\ find(r, "Error").val.kind \in ContextKinds) =>
        \E i \in 1..Len(log) :
            \/ ContainsSeq(log[i].msg, EmbeddedDisplay(find(r, "Error").val))
            \/ ContainsSeq(log[i].span, EmbeddedDebug(find(r, "Error").val))

C9_RouteNotFoundIffNoSignal ==
    Returned =>
        ((reply = Ok(404, <<"Route not found">>))
            <=> ~(\E j \in 1..Len(r) : IsFailureSignal(r[j])))

C9_Witness ==
    /\ pc = "replied"
    /\ Len(r) = 1
    /\ r[1].type = "MethodNotAllowed"
    /\ reply = Ok(404, <<"Route not found">>)

-----------------------------------------------------------------------------
(* What "parses as a u32" means, by decimal value *)

RECURSIVE DecimalValue(_)
DecimalValue(ds) ==
    IF ds = <<>> THEN 0 ELSE DecimalValue(SubSeq(ds, 1, Len(ds) - 1)) * 10 + DigitValue(ds[Len(ds)])

Unsigned(s) == IF s # <<>> /\ Head(s) = "+" THEN Tail(s) ELSE s

\* The digits before the last five, and the last five.
HighDigits(ds) == IF Len(ds) > 5 THEN SubSeq(ds, 1, Len(ds) - 5) ELSE <<>>

LowDigits(ds) == IF Len(ds) > 5 THEN SubSeq(ds, Len(ds) - 4, Len(ds)) ELSE ds

\* s is an optional "+" and at least one decimal digit, at most 4294967295.
IsU32Text(s) ==
    LET ds == Unsigned(s)
    IN  /\ ds # <<>>
        /\ \A i \in 1..Len(ds) : IsDigitChar(ds[i])
        /\ Len(ds) <= 10
        /\ \/ DecimalValue(HighDigits(ds)) < 42949
           \/ DecimalValue(HighDigits(ds)) = 42949 /\ DecimalValue(LowDigits(ds)) <= 67295

\* The limbs of high * 10^5 + low  (10^5 = 2^16 + 34464).
U32OfText(s) ==
    LET ds == Unsigned(s)
        t  == DecimalValue(HighDigits(ds)) * 34464 + DecimalValue(LowDigits(ds))
    IN  <<DecimalValue(HighDigits(ds)) + (t \div Limb), t % Limb>>

\* C10: extract_pagination answers Ok(limit, offset) when both keys are
\* there and parse as u32, ParseError (limit looked at first) when both are
\* there and one does not parse, and MissingParameters, rendered "Missing
\* parameter" and answered (416, "Missing parameter"), when one is absent.
C10_ExtractPagination ==
    pc = "paginated" =>
        IF "limit" \in DOMAIN params /\ "offset" \in DOMAIN params
        THEN IF ~IsU32Text(params["limit"])
             THEN /\ page.result = "Err"
                  /\ page.err.kind = "ParseError"
                  /\ page.err.ctx.variant = parse_u32(params["limit"]).err
             ELSE IF ~IsU32Text(params["offset"])
             THEN /\ page.result = "Err"
                  /\ page.err.kind = "ParseError"
                  /\ page.err.ctx.variant = parse_u32(params["offset"]).err
             ELSE /\ page.result = "Ok"
                  /\ page.limit = [some |-> TRUE, val |-> U32OfText(params["limit"])]
                  /\ page.offset = U32OfText(params["offset"])
        ELSE /\ page.result = "Err"
             /\ page.err = Error("MissingParameters", NoCtx)
             /\ ErrorDisplay(page.err) = <<"Missing parameter">>
             /\ BranchReply(<<page.err>>) = Ok(416, <<"Missing parameter">>)

C10_Witness ==
    /\ pc = "paginated"
    /\ DOMAIN params = {"limit"}
    /\ params["limit"] = <<"1">>
    /\ page.result = "Err"
    /\ page.err.kind = "MissingParameters"

-----------------------------------------------------------------------------
(* Several Error values in one rejection *)

\* The rejection without the Error values that follow its first Error.
RECURSIVE WithoutLaterErrors(_, _)
WithoutLaterErrors(rej, seen) ==
    IF rej = <<>> THEN <<>>
    ELSE IF Head(rej).type = "Error"
         THEN (IF seen THEN <<>> ELSE <<Head(rej)>>) \o WithoutLaterErrors(Tail(rej), TRUE)
         ELSE <<Head(rej)>> \o WithoutLaterErrors(Tail(rej), seen)

\* C11: the outcome is the one return_error gives for the same rejection
\* with every Error after the first one removed; an Error attached later
\* never changes it.
C11_OnlyFirstErrorInspected ==
    Returned => reply = BranchReply(WithoutLaterErrors(r, FALSE))

C11_Witness ==
    /\ pc = "replied"
    /\ Len(r) = 2
    /\ r[1].type = "Error" /\ r[1].kind = "QuestionNotFound"
    /\ r[2].type = "Error" /\ r[2].kind = "DatabaseQueryError"
    /\ reply = Ok(416, <<"Question not found">>)

====
